---- MODULE Spec2Model ----
(***************************************************************************)
(* The authenticated request pipeline of pykalshi: one paginated_get call  *)
(* of AsyncKalshiClient, which loops over get(), which runs _request (the  *)
(* retry loop around the transport) and hands the response to              *)
(* _handle_response.  The transport and the server are the environment:    *)
(* every awaited session.request ends in a timeout, a connection error,    *)
(* another transport error, or a response with some status and body.       *)
(*                                                                         *)
(* Strings that the code builds or takes apart (endpoints, URLs, signed    *)
(* paths) are sequences of tokens, so that concatenation is \o and         *)
(* urlparse(...).path is a prefix computation.                             *)
(***************************************************************************)
EXTENDS Integers, Sequences, FiniteSets, Bags, TLC

VARIABLES
    max_retries,    \* self.max_retries
    fetch_all,      \* paginated_get's fetch_all argument
    rate_limiter,   \* self.rate_limiter: "None" or "limiter"
    caller_params,  \* the mapping the caller passed to paginated_get
    params,         \* paginated_get's private copy, params = dict(params)
    all_items,      \* paginated_get's accumulator
    pages,          \* history: the bodies get() returned to paginated_get, in order
    gets,           \* history: number of get() calls paginated_get has made
    endpoint,       \* the endpoint of the get() in progress
    attempt,        \* _request's loop index
    wait,           \* the backoff delay being slept
    calls,          \* history: session.request calls of the _request in progress
    acquires,       \* history: rate_limiter.acquire() calls of the _request in progress
    updates,        \* history: _update_rate_limiter calls of the _request in progress
    outcomes,       \* history: the bag of transport outcomes of the attempts so far
    last,           \* history: the transport outcome of the latest attempt
    sent,           \* the request handed to the transport by the last dispatch
    req_result,     \* what the last finished _request returned or raised
    result,         \* what paginated_get returned or raised
    pc,             \* where the coroutine is suspended
    signing,        \* SignSpec: the request built by the last signing
    prev_signing,   \* SignSpec: the request built by the signing before it
    clock,          \* RetrySignSpec: the system clock, in ticks
    book_state,     \* BookSpec: "Uninitialized", "Live" or "Stale"
    yes,            \* BookSpec: the levels of the book's yes side
    no,             \* BookSpec: the levels of the book's no side
    seq,            \* BookSpec: sequence number of the last applied message
    gap,            \* BookSpec: the gap notification surfaced by the last message
    msg,            \* BookSpec history: the last message handed to the engine
    prev_state,     \* BookSpec history: book_state when that message arrived
    orderbook,      \* QuoteSpec: the orderbook field of an OrderbookResponse
    best_yes_bid,   \* QuoteSpec: what the best_yes_bid property returned
    best_no_bid,    \* QuoteSpec: what the best_no_bid property returned
    quote_pc,       \* QuoteSpec: "loaded" before the properties are read, "read" after
    limiter,        \* LimiterSpec: the shared rate limiter, its policy and its counter
    lock,           \* LimiterSpec: the request inside the limiter's critical section
    rpc,            \* LimiterSpec: where each request's _request is suspended
    local,          \* LimiterSpec: what each request holds between two of its steps
    rwait,          \* LimiterSpec: the wait the last acquire() of each request returned
    racq,           \* LimiterSpec history: acquire() calls each request has completed
    last_update,    \* LimiterSpec history: the quota header of the last update()
    serial,         \* LimiterSpec history: the limiter had the calls run one at a time
    serial_wait,    \* LimiterSpec history: the waits that serial run returned
    window,         \* LimiterSpec history: budget and grants since the last refill
    mve_self,       \* MveSpec: the MveCollection on the left of ==
    mve_other,      \* MveSpec: the object on the right of ==
    eq_result,      \* MveSpec: what mve_self == mve_other evaluated to
    hash_self,      \* MveSpec: hash(mve_self)
    hash_other,     \* MveSpec: hash(mve_other)
    mve_pc          \* MveSpec: "built" before the comparison, "compared" after

vars == <<max_retries, fetch_all, rate_limiter, caller_params, params, all_items,
          pages, gets, endpoint, attempt, wait, calls, acquires, updates, outcomes,
          last, sent, req_result, result, pc, signing, prev_signing, clock,
          book_state, yes, no, seq, gap, msg, prev_state,
          orderbook, best_yes_bid, best_no_bid, quote_pc,
          limiter, lock, rpc, local, rwait, racq, last_update, serial, serial_wait,
          window, mve_self, mve_other, eq_result, hash_self, hash_other, mve_pc>>

pipeline_vars == <<max_retries, fetch_all, rate_limiter, caller_params, params,
                   all_items, pages, gets, endpoint, attempt, wait, calls, acquires,
                   updates, outcomes, last, sent, req_result, result, pc>>

sign_vars == <<signing, prev_signing, clock>>

book_vars == <<book_state, yes, no, seq, gap, msg, prev_state>>

quote_vars == <<orderbook, best_yes_bid, best_no_bid, quote_pc>>

limiter_vars == <<limiter, lock, rpc, local, rwait, racq, last_update, serial,
                  serial_wait, window>>

mve_vars == <<mve_self, mve_other, eq_result, hash_self, hash_other, mve_pc>>

\* the state of the components a request does not touch
lib_vars == <<book_vars, quote_vars, limiter_vars, mve_vars>>

----------------------------------------------------------------------------
(* Bounds of the model.                                                    *)

\* largest configured max_retries explored
MaxRetries == 3
\* the server serves at most this many pages to one paginated_get
MaxPages == 2
\* timestamps read from the clock range over 0..MaxClock
MaxClock == 1
\* PSS salts drawn by the signer range over 0..MaxSalt
MaxSalt == 1
\* the attempts whose backoff delay BackoffSpec computes are 0..MaxBackoffAttempt
MaxBackoffAttempt == 7
\* the requests of LimiterSpec dispatch at most this often each
MaxDispatches == 2
\* the active rate limiter's budget per window
Capacity == 2
\* quantities of order-book levels range over 0..MaxQty
MaxQty == 2
\* sequence numbers of feed messages range over 1..MaxSeq
MaxSeq == 3

None == "None"
Absent == "Absent"

----------------------------------------------------------------------------
(* Strings as token sequences.                                             *)

\* urlparse(endpoint).path: everything before the query string
UrlPath(e) ==
    IF \E i \in 1..Len(e) : e[i] = "?"
    THEN LET q == CHOOSE i \in 1..Len(e) :
                    /\ e[i] = "?"
                    /\ \A j \in 1..(i - 1) : e[j] # "?"
         IN  SubSeq(e, 1, q - 1)
    ELSE e

\* {k: v for k, v in params.items() if v is not None}; params is a sequence
\* of <<key, value>> pairs in dict order
Filtered_KeepNone(p) == p

RECURSIVE Filtered(_)
Filtered(p) ==
    IF p = <<>> THEN <<>>
    ELSE IF Head(p)[2] = None THEN Filtered(Tail(p))
         ELSE <<Head(p)>> \o Filtered(Tail(p))

\* urlencode(filtered): k1=v1&k2=v2 in dict order
RECURSIVE UrlEncode(_)
UrlEncode(f) ==
    IF f = <<>> THEN <<>>
    ELSE IF Len(f) = 1 THEN <<f[1][1], "=", f[1][2]>>
         ELSE <<f[1][1], "=", f[1][2], "&">> \o UrlEncode(Tail(f))

\* endpoint = f"{path}?{urlencode(filtered)}" if filtered else path
BuildEndpoint(path, p) ==
    LET filtered == Filtered(p)
    IN  IF filtered # <<>> THEN path \o <<"?">> \o UrlEncode(filtered) ELSE path

\* params["cursor"] = cursor: replaces the value in place, or appends the key
RECURSIVE HasKey(_, _)
HasKey(p, k) == p # <<>> /\ (Head(p)[1] = k \/ HasKey(Tail(p), k))

SetParam(p, k, v) ==
    IF HasKey(p, k)
    THEN [i \in 1..Len(p) |-> IF p[i][1] = k THEN <<k, v>> ELSE p[i]]
    ELSE Append(p, <<k, v>>)

api_base == <<"https://api.elections.kalshi.com", "/trade-api/v2">>
PagePath == <<"/markets">>

----------------------------------------------------------------------------
(* Signer (kalshi_api/client.py).                                          *)

\* private_key.sign(message, PSS(MGF1(SHA256), salt_length = MAX_LENGTH),
\* SHA256): RSA-PSS is randomised, the signature is a function of the
\* message and of the salt drawn for this call
PssSign(message, salt) == [over |-> message, salt |-> salt]

\* _sign_request: message = f"{timestamp}{method}{path}"
SignRequest(method, path, ts, salt) ==
    LET timestamp == ts
        message == <<timestamp, method>> \o path
    IN  <<timestamp, PssSign(message, salt)>>

\* _get_headers: the signature never covers the query string
GetHeaders_SignQuery(method, e, ts, salt) ==
    LET full_path == <<"/trade-api/v2">> \o e
        signed == SignRequest(method, full_path, ts, salt)
    IN  [content_type |-> "application/json",
         access_key |-> "api_key_id",
         signature |-> signed[2],
         timestamp |-> signed[1]]

GetHeaders(method, e, ts, salt) ==
    LET path_without_query == UrlPath(e)
        full_path == <<"/trade-api/v2">> \o path_without_query
        signed == SignRequest(method, full_path, ts, salt)
    IN  [content_type |-> "application/json",
         access_key |-> "api_key_id",
         signature |-> signed[2],
         timestamp |-> signed[1]]

\* _request, lines 79 and 87-92: url = api_base + endpoint, the headers are
\* built from method and endpoint, and both go to session.request
BuildRequest(method, e, ts, salt) ==
    [method |-> method,
     url |-> api_base \o e,
     headers |-> GetHeaders(method, e, ts, salt)]

----------------------------------------------------------------------------
(* Responses of the server.                                                *)

\* A JSON object as response.json() returns it, with the keys the client
\* reads; a key the server left out is Absent (has_items for the list).
JsonObject(has_items, items, cursor, message, error_message, code, error_code) ==
    [has_items |-> has_items, items |-> items, cursor |-> cursor,
     message |-> message, error_message |-> error_message,
     code |-> code, error_code |-> error_code]

\* the list a page carries under response_key
PageItems == {<<"A", "B">>, <<"C">>}
Cursors == {Absent, "", "p2", "p3"}

\* success bodies: the list (or no such key) and the cursor (or no such key)
SuccessBodies ==
    {JsonObject(TRUE, i, c, Absent, Absent, Absent, Absent) :
        i \in PageItems, c \in Cursors}
    \cup {JsonObject(FALSE, <<>>, c, Absent, Absent, Absent, Absent) : c \in Cursors}

\* error bodies that parse as JSON: the fields _handle_response reads
ErrorBodies ==
    { JsonObject(FALSE, <<>>, Absent, "Not found", Absent, "not_found", Absent),
      JsonObject(FALSE, <<>>, Absent, "no funds", Absent, "insufficient_funds", Absent),
      JsonObject(FALSE, <<>>, Absent, Absent, "no balance", Absent, "insufficient_balance") }

\* a body that does not parse: response.json() raises ValueError
NotJson == JsonObject(FALSE, <<>>, Absent, Absent, Absent, Absent, Absent)

SuccessStatuses == {200}
ErrorStatuses == {400, 401, 403, 404, 429, 500}

\* _RETRYABLE_STATUS_CODES (pykalshi/_base.py): 429 and the 5xx server errors
RETRYABLE_STATUS_CODES == {429, 500, 502, 503, 504}

\* The responses the server may give.  Success bodies are JSON (the API's
\* contract); error bodies may fail to parse; Retry-After comes only with
\* the statuses the client retries.
SuccessResponses ==
    [status_code : SuccessStatuses, json : {TRUE}, data : SuccessBodies,
     text : {"{...}"}, retry_after : {None}]

ErrorResponses ==
    [status_code : ErrorStatuses \ RETRYABLE_STATUS_CODES, json : {TRUE},
     data : ErrorBodies, text : {"{...}"}, retry_after : {None}]
    \cup
    [status_code : ErrorStatuses \ RETRYABLE_STATUS_CODES, json : {FALSE},
     data : {NotJson}, text : {"Bad Gateway"}, retry_after : {None}]
    \cup
    [status_code : ErrorStatuses \cap RETRYABLE_STATUS_CODES, json : {TRUE},
     data : ErrorBodies, text : {"{...}"}, retry_after : {None, "7"}]
    \cup
    [status_code : ErrorStatuses \cap RETRYABLE_STATUS_CODES, json : {FALSE},
     data : {NotJson}, text : {"Bad Gateway"}, retry_after : {None, "7"}]

Responses == SuccessResponses \cup ErrorResponses

----------------------------------------------------------------------------
(* Response handler (kalshi_api/client.py, _handle_response).              *)

\* Python's `a or b` on values that are absent (None) or strings
PyOr(a, b) == IF a = Absent \/ a = "" THEN b ELSE a

\* the class raised for an error status and exchange code
ErrorClass_FundsFirst(status_code, code) ==
    IF status_code = 404 THEN "ResourceNotFoundError"
    ELSE IF code \in {"insufficient_funds", "insufficient_balance"}
         THEN "InsufficientFundsError"
    ELSE IF status_code \in {401, 403} THEN "AuthenticationError"
    ELSE "KalshiAPIError"

ErrorClass_No404(status_code, code) ==
    IF status_code \in {401, 403} THEN "AuthenticationError"
    ELSE IF code \in {"insufficient_funds", "insufficient_balance"}
         THEN "InsufficientFundsError"
    ELSE "KalshiAPIError"

ErrorClass(status_code, code) ==
    IF status_code \in {401, 403} THEN "AuthenticationError"
    ELSE IF status_code = 404 THEN "ResourceNotFoundError"
    ELSE IF code \in {"insufficient_funds", "insufficient_balance"}
         THEN "InsufficientFundsError"
    ELSE "KalshiAPIError"

HandleResponse(response) ==
    \* status_code = int(response.status_code or 500)
    LET status_code == IF response.status_code = 0 THEN 500 ELSE response.status_code
    IN  IF status_code < 400
        THEN [kind |-> "return", body |-> response.data]
        ELSE LET message ==
                     IF response.json
                     THEN PyOr(response.data.message,
                               IF response.data.error_message = Absent
                               THEN "Unknown Error"
                               ELSE response.data.error_message)
                     ELSE response.text
                 code ==
                     IF response.json
                     THEN LET c == PyOr(response.data.code, response.data.error_code)
                          IN  IF c = Absent THEN None ELSE c
                     ELSE None
             IN  [kind |-> "raise",
                  error |-> [class |-> ErrorClass(status_code, code),
                             status_code |-> status_code,
                             message |-> message,
                             error_code |-> code]]

----------------------------------------------------------------------------
(* Request pipeline (pykalshi/aclient.py, _request).                       *)

\* an exception as the caller sees it; the transport's own exceptions carry
\* no status, and only RateLimitError is given method and endpoint
Exception(class, status_code, message, error_code, method, e) ==
    [class |-> class, status_code |-> status_code, message |-> message,
     error_code |-> error_code, method |-> method, endpoint |-> e]

\* RateLimitError(429, message, method=method, endpoint=endpoint)
RateLimitError(status_code, message, method, e) ==
    Exception("RateLimitError", status_code, message, None, method, e)

TransportError(class) == Exception(class, 0, "", None, Absent, Absent)

\* the exception _handle_response raised, as it reaches the caller
ApiError(err) ==
    Exception(err.class, err.status_code, err.message, err.error_code, Absent, Absent)

BackoffBase == 1
BackoffCap == 60

RECURSIVE Pow2(_)
Pow2(n) == IF n = 0 THEN 1 ELSE 2 * Pow2(n - 1)

Min(a, b) == IF a <= b THEN a ELSE b

RetryAfterSeconds(h) == IF h = "7" THEN 7 ELSE IF h = "120" THEN 120 ELSE 0

\* _compute_backoff(attempt, retry_after)
ComputeBackoff(att, retry_after) ==
    IF retry_after # None
    THEN RetryAfterSeconds(retry_after)
    ELSE Min(BackoffBase * Pow2(att), BackoffCap)

\* attempt == self.max_retries
IsLastAttempt_OffByOne(att) == att = max_retries + 1

IsLastAttempt(att) == att = max_retries

\* response.status_code not in _RETRYABLE_STATUS_CODES
IsRetryable_Inverted(status_code) == status_code \notin RETRYABLE_STATUS_CODES

IsRetryable_AnyError(status_code) == status_code >= 400

IsRetryable(status_code) == status_code \in RETRYABLE_STATUS_CODES

\* lines 118-128: what _request does with a response received on attempt
\* att: return it, raise RateLimitError, or back off and retry
AfterResponse_RaiseOnAnyExhaustion(att, response) ==
    IF ~IsRetryable(response.status_code) THEN "return"
    ELSE IF IsLastAttempt(att) THEN "raise"
    ELSE "retry"

AfterResponse_ReturnOnExhaustion(att, response) ==
    IF ~IsRetryable(response.status_code) THEN "return"
    ELSE IF IsLastAttempt(att) THEN "return"
    ELSE "retry"

AfterResponse_RaiseIfAny429(att, response) ==
    IF ~IsRetryable(response.status_code) THEN "return"
    ELSE IF IsLastAttempt(att)
         THEN IF response.status_code = 429
                 \/ CopiesIn([kind |-> "response", status_code |-> 429], outcomes) > 0
              THEN "raise" ELSE "return"
    ELSE "retry"

AfterResponse(att, response) ==
    IF ~IsRetryable(response.status_code) THEN "return"
    ELSE IF IsLastAttempt(att)
         THEN IF response.status_code = 429 THEN "raise" ELSE "return"
    ELSE "retry"

NoResult == [kind |-> "none"]
Returned(response) == [kind |-> "return", response |-> response]
Raised(err) == [kind |-> "raise", error |-> err]

\* lines 96, 107 and 128: the delay before the retry of an attempt that
\* ended as res: only a response has a Retry-After header to pass on
BackoffAfter_IgnoreHeader(att, res) == ComputeBackoff(att, None)

BackoffAfter(att, res) ==
    IF res.kind = "return"
    THEN ComputeBackoff(att, res.response.retry_after)
    ELSE ComputeBackoff(att, None)

NoRequest == [method |-> None, url |-> <<>>, signed_path |-> <<>>, attempt |-> 0]

Outcome(kind, status_code) == [kind |-> kind, status_code |-> status_code]
NoOutcome == Outcome("none", 0)

----------------------------------------------------------------------------
(* Initial states: a client configured with max_retries and (or not) a     *)
(* rate limiter, and a caller about to call paginated_get.                 *)

\* the mappings callers pass: filters that may be None, in dict order
CallerParams ==
    { <<<<"limit", None>>, <<"cursor", None>>>>,
      <<<<"limit", "50">>>> }

NoSigning == [method |-> None, path |-> <<>>, query |-> <<>>, ts |-> 0, salt |-> 0,
              request |-> BuildRequest(None, <<>>, 0, 0)]

\* no message has been handed to the order-book engine
NoMessage == [kind |-> None, side |-> None, price |-> 0, quantity |-> 0,
              yes |-> {}, no |-> {}, seq |-> 0]

\* no gap notification
NoGap == [expected |-> 0, received |-> 0]

\* no book exists for the ticker
IdleBook ==
    /\ book_state = "Uninitialized"
    /\ yes = {}
    /\ no = {}
    /\ seq = 0
    /\ gap = NoGap
    /\ msg = NoMessage
    /\ prev_state = "Uninitialized"

\* Optional[int]: None, or an integer
NoneInt == [is_none |-> TRUE, value |-> 0]

Some(v) == [is_none |-> FALSE, value |-> v]

\* Optional[list]: None, or a list
NoneList == [is_none |-> TRUE, list |-> <<>>]

SomeList(list) == [is_none |-> FALSE, list |-> list]

\* no OrderbookResponse has been parsed
IdleQuotes ==
    /\ orderbook = [yes |-> NoneList, no |-> NoneList]
    /\ best_yes_bid = NoneInt
    /\ best_no_bid = NoneInt
    /\ quote_pc = "idle"

\* the requests that share one rate limiter
Requests == {"r1", "r2"}

\* nobody is inside the limiter's critical section
NoHolder == "free"

\* no request shares a rate limiter
IdleLimiter ==
    /\ limiter = [policy |-> None, tokens |-> 0]
    /\ lock = NoHolder
    /\ rpc = [i \in Requests |-> "idle"]
    /\ local = [i \in Requests |-> NoneInt]
    /\ rwait = [i \in Requests |-> 0]
    /\ racq = [i \in Requests |-> 0]
    /\ last_update = NoneInt
    /\ serial = [policy |-> None, tokens |-> 0]
    /\ serial_wait = [i \in Requests |-> 0]
    /\ window = [budget |-> 0, grants |-> 0]

\* a Python object: its class, its identity, and the fields that matter
Object(class, id, collection_ticker, title) ==
    [class |-> class, id |-> id,
     data |-> [collection_ticker |-> collection_ticker, title |-> title]]

\* no object has been compared
IdleMve ==
    /\ mve_self = Object(None, None, None, None)
    /\ mve_other = Object(None, None, None, None)
    /\ eq_result = FALSE
    /\ hash_self = 0
    /\ hash_other = 0
    /\ mve_pc = "idle"

\* the components a request does not touch are at rest
IdleLib == IdleBook /\ IdleQuotes /\ IdleLimiter /\ IdleMve

\* no paginated_get is running
IdlePipeline ==
    /\ max_retries = 0
    /\ fetch_all = FALSE
    /\ rate_limiter = None
    /\ caller_params = <<>>
    /\ params = <<>>
    /\ all_items = <<>>
    /\ pages = <<>>
    /\ gets = 0
    /\ endpoint = <<>>
    /\ attempt = 0
    /\ wait = 0
    /\ calls = 0
    /\ acquires = 0
    /\ updates = 0
    /\ outcomes = EmptyBag
    /\ last = NoOutcome
    /\ sent = NoRequest
    /\ req_result = NoResult
    /\ result = NoResult
    /\ pc = "idle"

\* no request has been signed
IdleSigner ==
    /\ signing = NoSigning
    /\ prev_signing = NoSigning
    /\ clock = 0

Init ==
    /\ max_retries \in 0..MaxRetries
    /\ fetch_all \in BOOLEAN
    /\ rate_limiter \in {None, "limiter"}
    /\ caller_params \in CallerParams
    /\ params = <<>>
    /\ all_items = <<>>
    /\ pages = <<>>
    /\ gets = 0
    /\ endpoint = <<>>
    /\ attempt = 0
    /\ wait = 0
    /\ calls = 0
    /\ acquires = 0
    /\ updates = 0
    /\ outcomes = EmptyBag
    /\ last = NoOutcome
    /\ sent = NoRequest
    /\ req_result = NoResult
    /\ result = NoResult
    /\ pc = "start"
    /\ signing = NoSigning
    /\ prev_signing = NoSigning
    /\ clock = 0
    /\ IdleLib

----------------------------------------------------------------------------
(* Actions of the pipeline.                                                *)

\* get(endpoint) -> _request("GET", endpoint): lines 155-157, 140-141 and
\* 79-81, up to the top of the first loop iteration
BeginGet(p) ==
    /\ endpoint' = BuildEndpoint(PagePath, p)
    /\ gets' = gets + 1
    /\ attempt' = 0
    /\ calls' = 0
    /\ acquires' = 0
    /\ updates' = 0
    /\ outcomes' = EmptyBag
    /\ last' = NoOutcome
    /\ pc' = "acquire"

\* paginated_get is called: params = dict(params), all_items = []
StartPaginatedGet ==
    /\ pc = "start"
    /\ params' = caller_params
    /\ all_items' = <<>>
    /\ BeginGet(params')
    /\ UNCHANGED <<max_retries, fetch_all, rate_limiter, caller_params, pages,
                   wait, sent, req_result, result, sign_vars, lib_vars>>

\* lines 82-85: await self.rate_limiter.acquire()
Acquire ==
    /\ pc = "acquire"
    /\ rate_limiter # None
    /\ acquires' = acquires + 1
    /\ pc' = "send"
    /\ UNCHANGED <<max_retries, fetch_all, rate_limiter, caller_params, params,
                   all_items, pages, gets, endpoint, attempt, wait, calls, updates,
                   outcomes, last, sent, req_result, result, sign_vars, lib_vars>>

\* lines 82-87: the dispatch follows the acquire() of its attempt, or the
\* top of the loop when no rate limiter is configured
MayDispatch_BeforeAcquire(at, limiter_or_none) == at \in {"acquire", "send"}

MayDispatch(at, limiter_or_none) ==
    \/ at = "send"
    \/ at = "acquire" /\ limiter_or_none = None

\* lines 87-92: sign, then hand method, url and headers to session.request.
\* The timestamp and the salt are this attempt's; of the signed message the
\* state keeps the path it covers.
SendRequest ==
    /\ MayDispatch(pc, rate_limiter)
    /\ \E ts \in 0..MaxClock, salt \in 0..MaxSalt :
          LET request == BuildRequest("GET", endpoint, ts, salt)
              over == request.headers.signature.over
          IN  sent' = [method |-> request.method,
                       url |-> request.url,
                       signed_path |-> SubSeq(over, 3, Len(over)),
                       attempt |-> attempt]
    /\ calls' = calls + 1
    /\ pc' = "request"
    /\ UNCHANGED <<max_retries, fetch_all, rate_limiter, caller_params, params,
                   all_items, pages, gets, endpoint, attempt, wait, acquires,
                   updates, outcomes, last, req_result, result, sign_vars, lib_vars>>

\* lines 154-158: nothing in paginated_get or get catches: an exception of
\* self.get(endpoint) leaves both, and the local all_items is dropped
Propagate_ReturnAccumulated(items, err) == [kind |-> "return", items |-> items]

Propagate(items, err) == Raised(err)

\* lines 93-114: the handlers of httpx.TimeoutException and httpx.ConnectError
TransportFailure(class, kind) ==
    /\ pc = "request"
    /\ outcomes' = outcomes (+) SetToBag({Outcome(kind, 0)})
    /\ last' = Outcome(kind, 0)
    /\ IF IsLastAttempt(attempt)
       THEN /\ req_result' = Raised(TransportError(class))
            /\ result' = Propagate(all_items, TransportError(class))
            /\ pc' = "raised"
            /\ wait' = wait
       ELSE /\ wait' = BackoffAfter(attempt, Raised(TransportError(class)))
            /\ pc' = "sleep"
            /\ UNCHANGED <<req_result, result>>
    /\ UNCHANGED <<max_retries, fetch_all, rate_limiter, caller_params, params,
                   all_items, pages, gets, endpoint, attempt, calls, acquires,
                   updates, sent, sign_vars, lib_vars>>

TransportTimeout == TransportFailure("TimeoutException", "timeout")

TransportConnectError == TransportFailure("ConnectError", "connect")

\* any other exception of session.request is caught by neither handler and
\* leaves _request, get and paginated_get at once
TransportOtherError ==
    /\ pc = "request"
    /\ outcomes' = outcomes (+) SetToBag({Outcome("other", 0)})
    /\ last' = Outcome("other", 0)
    /\ req_result' = Raised(TransportError("ReadError"))
    /\ result' = Propagate(all_items, TransportError("ReadError"))
    /\ pc' = "raised"
    /\ UNCHANGED <<max_retries, fetch_all, rate_limiter, caller_params, params,
                   all_items, pages, gets, endpoint, attempt, wait, calls, acquires,
                   updates, sent, sign_vars, lib_vars>>

\* line 116: self._update_rate_limiter(response), for every response and
\* before its status is looked at; n counts the update() calls so far
UpdateRateLimiter_AfterDecision(limiter_or_none, n, att, response) ==
    IF limiter_or_none # None /\ AfterResponse(att, response) = "return"
    THEN n + 1 ELSE n

UpdateRateLimiter(limiter_or_none, n, att, response) ==
    IF limiter_or_none # None THEN n + 1 ELSE n

\* lines 116-134: a response arrives, from a server that serves at most
\* served pages
ResponseArrivesWithin(served) ==
    /\ pc = "request"
    /\ \E response \in Responses :
          /\ (fetch_all /\ response.data.cursor \in {"p2", "p3"}) => gets < served
          /\ outcomes' = outcomes (+) SetToBag({Outcome("response", response.status_code)})
          /\ last' = Outcome("response", response.status_code)
          /\ updates' = UpdateRateLimiter(rate_limiter, updates, attempt, response)
          /\ LET next == AfterResponse(attempt, response)
             IN  CASE next = "return" ->
                        /\ req_result' = Returned(response)
                        /\ pc' = "handle"
                        /\ UNCHANGED <<result, wait>>
                   [] next = "raise" ->
                        LET err == RateLimitError(429, "Rate limit exceeded after retries",
                                                  "GET", endpoint)
                        IN  /\ req_result' = Raised(err)
                            /\ result' = Propagate(all_items, err)
                            /\ pc' = "raised"
                            /\ wait' = wait
                   [] next = "retry" ->
                        /\ wait' = BackoffAfter(attempt, Returned(response))
                        /\ pc' = "sleep"
                        /\ UNCHANGED <<req_result, result>>
    /\ UNCHANGED <<max_retries, fetch_all, rate_limiter, caller_params, params,
                   all_items, pages, gets, endpoint, attempt, calls, acquires,
                   sent, sign_vars, lib_vars>>

\* the server serves at most MaxPages pages
TransportResponse == ResponseArrivesWithin(MaxPages)

\* lines 81, 103, 114, 134: whatever outcome led to the retry, a timeout, a
\* connection error or a retryable status, the next pass is the next value
\* of the one loop index
NextAttempt_ResponsesOnly(att, outcome) ==
    IF outcome.kind = "response" THEN att + 1 ELSE att

NextAttempt(att, outcome) == att + 1

\* await asyncio.sleep(wait), then the for loop's next iteration; after the
\* last iteration of range(max_retries + 1) the loop is left (line 136)
SleepDone_NoAdvance ==
    /\ pc = "sleep"
    /\ attempt' = attempt
    /\ pc' = "acquire"
    /\ wait' = 0
    /\ UNCHANGED <<max_retries, fetch_all, rate_limiter, caller_params, params,
                   all_items, pages, gets, endpoint, calls, acquires, updates,
                   outcomes, last, sent, req_result, result, sign_vars, lib_vars>>

SleepDone ==
    /\ pc = "sleep"
    /\ attempt' = NextAttempt(attempt, last)
    /\ pc' = IF attempt' \in 0..max_retries THEN "acquire" ELSE "line136"
    \* wait is assigned again before it is next read: the model forgets it
    /\ wait' = 0
    /\ UNCHANGED <<max_retries, fetch_all, rate_limiter, caller_params, params,
                   all_items, pages, gets, endpoint, calls, acquires, updates,
                   outcomes, last, sent, req_result, result, sign_vars, lib_vars>>

\* dict.get(key, default) on a parsed body
GetItems(body) == IF body.has_items THEN body.items ELSE <<>>
GetCursor(body) == IF body.cursor = Absent THEN "" ELSE body.cursor

\* all_items.extend(response.get(response_key, []))
Extend_Prepend(items, more) == more \o items

Extend(items, more) == items \o more

\* if not fetch_all or not cursor: break
StopPaging_IgnoreFetchAll(fa, cursor) == cursor = ""

StopPaging_OnRepeatedCursor(fa, cursor) ==
    \/ ~fa
    \/ cursor = ""
    \/ \E i \in 1..Len(params) : params[i] = <<"cursor", cursor>>

StopPaging(fa, cursor) == ~fa \/ cursor = ""

\* lines 152 and 162: params = dict(params) makes the mapping written to a
\* copy, so params["cursor"] = cursor leaves the caller's own mapping as it is
CallerMappingAfterWrite_Aliased(caller, k, v) == SetParam(caller, k, v)

CallerMappingAfterWrite(caller, k, v) == caller

\* get, line 142, and paginated_get, lines 158-163: _request returned a
\* response; map it, accumulate the page, then stop or ask for the next page
HandlePage ==
    /\ pc = "handle"
    /\ LET handled == HandleResponse(req_result.response)
       IN  IF handled.kind = "raise"
           THEN /\ result' = Propagate(all_items, ApiError(handled.error))
                /\ pc' = "raised"
                /\ UNCHANGED <<caller_params, params, all_items, pages, gets,
                               endpoint, attempt, calls, acquires, updates,
                               outcomes, last>>
           ELSE LET response == handled.body
                    cursor == GetCursor(response)
                IN  /\ all_items' = Extend(all_items, GetItems(response))
                    /\ pages' = Append(pages, response)
                    /\ IF StopPaging(fetch_all, cursor)
                       THEN /\ result' = [kind |-> "return", items |-> all_items']
                            /\ pc' = "returned"
                            /\ UNCHANGED <<caller_params, params, gets, endpoint,
                                           attempt, calls, acquires, updates,
                                           outcomes, last>>
                       ELSE /\ params' = SetParam(params, "cursor", cursor)
                            /\ caller_params' =
                                  CallerMappingAfterWrite(caller_params, "cursor", cursor)
                            /\ BeginGet(params')
                            /\ UNCHANGED result
    /\ UNCHANGED <<max_retries, fetch_all, rate_limiter, wait, sent,
                   req_result, sign_vars, lib_vars>>

Next ==
    \/ StartPaginatedGet
    \/ Acquire
    \/ SendRequest
    \/ TransportTimeout
    \/ TransportConnectError
    \/ TransportOtherError
    \/ TransportResponse
    \/ SleepDone
    \/ HandlePage

Spec == Init /\ [][Next]_vars

----------------------------------------------------------------------------
(* The signer on its own: requests are built for methods, paths and query  *)
(* parameters drawn from small sets, at timestamps and with salts drawn    *)
(* from 0..MaxClock and 0..MaxSalt; the state keeps the last two.          *)

SignMethods == {"GET", "DELETE"}
SignPaths == {<<"/markets">>, <<"/portfolio", "/orders">>}
SignQueries == {<<>>, <<<<"status", "open">>>>, <<<<"limit", "50">>, <<"cursor", "p2">>>>}

Signing(method, path, query, ts, salt) ==
    [method |-> method, path |-> path, query |-> query, ts |-> ts, salt |-> salt,
     request |-> BuildRequest(method, BuildEndpoint(path, query), ts, salt)]

SignInit ==
    /\ max_retries = 0
    /\ fetch_all = FALSE
    /\ rate_limiter = None
    /\ caller_params = <<>>
    /\ params = <<>>
    /\ all_items = <<>>
    /\ pages = <<>>
    /\ gets = 0
    /\ endpoint = <<>>
    /\ attempt = 0
    /\ wait = 0
    /\ calls = 0
    /\ acquires = 0
    /\ updates = 0
    /\ outcomes = EmptyBag
    /\ last = NoOutcome
    /\ sent = NoRequest
    /\ req_result = NoResult
    /\ result = NoResult
    /\ pc = "signer"
    /\ signing = NoSigning
    /\ prev_signing = NoSigning
    /\ clock = 0
    /\ IdleLib

\* one request is signed and built
SignAndBuild ==
    /\ pc = "signer"
    /\ \E method \in SignMethods, path \in SignPaths, query \in SignQueries,
          ts \in 0..MaxClock, salt \in 0..MaxSalt :
          signing' = Signing(method, path, query, ts, salt)
    /\ prev_signing' = signing
    /\ UNCHANGED <<clock, pipeline_vars, lib_vars>>

SignNext == SignAndBuild

SignSpec == SignInit /\ [][SignNext]_vars

----------------------------------------------------------------------------
(* Signing inside the retry loop.  One _request with the clock made        *)
(* explicit: time passes while the coroutine is suspended in acquire() and *)
(* in the backoff sleep, and _sign_request reads the clock when            *)
(* _get_headers runs, line 87, with no suspension before line 92 hands the *)
(* headers to the transport.                                               *)

\* the endpoint of the request that is retried
RetryPath == <<"/markets">>
RetryQuery == <<<<"limit", "50">>>>

\* line 87: the headers a dispatch carries are the ones just built
HeadersForAttempt_Reused(previous, fresh) ==
    IF previous = NoSigning THEN fresh ELSE previous

HeadersForAttempt(previous, fresh) == fresh

RetrySignInit ==
    /\ max_retries \in 0..MaxRetries
    /\ fetch_all = FALSE
    /\ rate_limiter \in {None, "limiter"}
    /\ caller_params = <<>>
    /\ params = <<>>
    /\ all_items = <<>>
    /\ pages = <<>>
    /\ gets = 0
    /\ endpoint = BuildEndpoint(RetryPath, RetryQuery)
    /\ attempt = 0
    /\ wait = 0
    /\ calls = 0
    /\ acquires = 0
    /\ updates = 0
    /\ outcomes = EmptyBag
    /\ last = NoOutcome
    /\ sent = NoRequest
    /\ req_result = NoResult
    /\ result = NoResult
    /\ pc = "acquire"
    /\ signing = NoSigning
    /\ prev_signing = NoSigning
    /\ clock = 0
    /\ IdleLib

\* lines 82-85: acquire() is awaited; time may pass
RetryAcquire ==
    /\ pc = "acquire"
    /\ rate_limiter # None
    /\ acquires' = acquires + 1
    /\ \E waited \in 0..1 : clock' = clock + waited
    /\ pc' = "send"
    /\ UNCHANGED <<max_retries, fetch_all, rate_limiter, caller_params, params,
                   all_items, pages, gets, endpoint, attempt, wait, calls, updates,
                   outcomes, last, sent, req_result, result, signing, prev_signing,
                   lib_vars>>

\* lines 87-92: the headers are built at the current time and dispatched
RetrySignAndSend ==
    /\ MayDispatch(pc, rate_limiter)
    /\ \E salt \in 0..MaxSalt :
          signing' = HeadersForAttempt(signing,
                                       Signing("GET", RetryPath, RetryQuery, clock, salt))
    /\ prev_signing' = signing
    /\ calls' = calls + 1
    /\ pc' = "request"
    /\ UNCHANGED <<max_retries, fetch_all, rate_limiter, caller_params, params,
                   all_items, pages, gets, endpoint, attempt, wait, acquires,
                   updates, outcomes, last, sent, req_result, result, clock, lib_vars>>

\* lines 93-134: the attempt ends in a transport failure or a retryable
\* status with attempts left, and the loop sleeps; or the call is over
RetryOutcome ==
    /\ pc = "request"
    /\ \/ ~IsLastAttempt(attempt) /\ pc' = "sleep"
       \/ pc' = "done"
    /\ UNCHANGED <<max_retries, fetch_all, rate_limiter, caller_params, params,
                   all_items, pages, gets, endpoint, attempt, wait, calls, acquires,
                   updates, outcomes, last, sent, req_result, result, sign_vars,
                   lib_vars>>

\* await asyncio.sleep(wait): time may pass, then the next pass of the loop
RetrySleepDone ==
    /\ pc = "sleep"
    /\ \E slept \in 0..1 : clock' = clock + slept
    /\ attempt' = attempt + 1
    /\ pc' = "acquire"
    /\ UNCHANGED <<max_retries, fetch_all, rate_limiter, caller_params, params,
                   all_items, pages, gets, endpoint, wait, calls, acquires, updates,
                   outcomes, last, sent, req_result, result, signing, prev_signing,
                   lib_vars>>

RetrySignNext ==
    \/ RetryAcquire
    \/ RetrySignAndSend
    \/ RetryOutcome
    \/ RetrySleepDone

RetrySignSpec == RetrySignInit /\ [][RetrySignNext]_vars

----------------------------------------------------------------------------
(* The backoff delay.  One pass of the retry loop that ends in a retry:    *)
(* the attempt number and the outcome of its dispatch are the inputs, the  *)
(* delay handed to asyncio.sleep is the result.                            *)

\* the outcomes of a dispatch that are retried: a retryable status, with
\* or without Retry-After, or a transport failure
RetriedOutcomes ==
    {Returned(r) : r \in [status_code : ErrorStatuses \cap RETRYABLE_STATUS_CODES,
                          json : {FALSE}, data : {NotJson}, text : {"Bad Gateway"},
                          retry_after : {None, "7", "120"}]}
    \cup {Raised(TransportError(class)) : class \in {"TimeoutException", "ConnectError"}}

BackoffInit ==
    /\ max_retries = MaxBackoffAttempt + 1
    /\ fetch_all = FALSE
    /\ rate_limiter = None
    /\ caller_params = <<>>
    /\ params = <<>>
    /\ all_items = <<>>
    /\ pages = <<>>
    /\ gets = 0
    /\ endpoint = <<>>
    /\ attempt \in 0..MaxBackoffAttempt
    /\ wait = 0
    /\ calls = 0
    /\ acquires = 0
    /\ updates = 0
    /\ outcomes = EmptyBag
    /\ last = NoOutcome
    /\ sent = NoRequest
    /\ req_result \in RetriedOutcomes
    /\ result = NoResult
    /\ pc = "outcome"
    /\ IdleSigner
    /\ IdleLib

\* lines 96, 107, 128: wait = self._compute_backoff(...), then the sleep
Backoff ==
    /\ pc = "outcome"
    /\ ~IsLastAttempt(attempt)
    /\ wait' = BackoffAfter(attempt, req_result)
    /\ pc' = "sleep"
    /\ UNCHANGED <<max_retries, fetch_all, rate_limiter, caller_params, params,
                   all_items, pages, gets, endpoint, attempt, calls, acquires,
                   updates, outcomes, last, sent, req_result, result, sign_vars,
                   lib_vars>>

BackoffNext == Backoff

BackoffSpec == BackoffInit /\ [][BackoffNext]_vars

----------------------------------------------------------------------------
(* The pagination loop on its own: a client without retries and without a  *)
(* rate limiter, so that every page request is one dispatch, against a     *)
(* server that goes on handing out cursors, the same one or another, for   *)
(* up to MaxFetches pages.                                                 *)

MaxFetches == 3

PagingInit ==
    /\ Init
    /\ max_retries = 0
    /\ rate_limiter = None

\* lines 116-126 for a page of the long listing
PagingResponse == ResponseArrivesWithin(MaxFetches)

PagingNext ==
    \/ StartPaginatedGet
    \/ SendRequest
    \/ TransportTimeout
    \/ TransportConnectError
    \/ TransportOtherError
    \/ PagingResponse
    \/ HandlePage

PagingSpec == PagingInit /\ [][PagingNext]_vars

----------------------------------------------------------------------------
(* The order-book engine: one book for one market ticker, rebuilt from a   *)
(* snapshot and the deltas that follow it.  Each side is the set of its    *)
(* levels; a delta names one side, one price and that price's new          *)
(* quantity.  The feed is the environment: it hands the engine any         *)
(* snapshot or delta, with any sequence number, in any state.              *)

\* the prices (in cents) the feed quotes
Prices == {40, 50}

Sides == {"yes", "no"}

Level(price, quantity) == [price |-> price, quantity |-> quantity]

\* the level lists a snapshot carries: resting levels, one per price, of
\* the smallest or the largest quantity
SnapshotSides ==
    UNION { { {Level(p, q[p]) : p \in D} : q \in [D -> {1, MaxQty}] } : D \in SUBSET Prices }

Snapshots ==
    { [kind |-> "snapshot", side |-> None, price |-> 0, quantity |-> 0,
       yes |-> y, no |-> n, seq |-> s] :
      y \in SnapshotSides, n \in SnapshotSides, s \in 1..MaxSeq }

Deltas ==
    { [kind |-> "delta", side |-> sd, price |-> p, quantity |-> q,
       yes |-> {}, no |-> {}, seq |-> s] :
      sd \in Sides, p \in Prices, q \in 0..MaxQty, s \in 1..MaxSeq }

Book == [state |-> book_state, yes |-> yes, no |-> no, seq |-> seq, gap |-> gap]

\* the single price/quantity change of a delta, on one side
SetLevel_KeepOld(levels, price, quantity) ==
    IF quantity > 0 THEN levels \cup {Level(price, quantity)} ELSE levels

SetLevel_KeepZero(levels, price, quantity) ==
    {l \in levels : l.price # price} \cup {Level(price, quantity)}

SetLevel(levels, price, quantity) ==
    LET others == {l \in levels : l.price # price}
    IN  IF quantity > 0 THEN others \cup {Level(price, quantity)} ELSE others

\* apply snapshot: always valid, replaces the whole book
ApplySnapshot_Merge(book, m) ==
    [state |-> "Live", yes |-> book.yes \cup m.yes, no |-> book.no \cup m.no,
     seq |-> m.seq, gap |-> NoGap]

ApplySnapshot(book, m) ==
    [state |-> "Live", yes |-> m.yes, no |-> m.no, seq |-> m.seq, gap |-> NoGap]

\* a gap: the book is invalid until the next snapshot
GapDetected_ApplyAnyway(book, m) ==
    [state |-> "Live",
     yes |-> IF m.side = "yes" THEN SetLevel(book.yes, m.price, m.quantity) ELSE book.yes,
     no |-> IF m.side = "no" THEN SetLevel(book.no, m.price, m.quantity) ELSE book.no,
     seq |-> m.seq, gap |-> NoGap]

GapDetected(book, m) ==
    [state |-> "Stale", yes |-> {}, no |-> {}, seq |-> book.seq,
     gap |-> [expected |-> book.seq + 1, received |-> m.seq]]

\* apply delta: requires a Live book and the next sequence number
ApplyDelta_AnyState(book, m) ==
    IF m.seq = book.seq + 1
    THEN [state |-> "Live",
          yes |-> IF m.side = "yes" THEN SetLevel(book.yes, m.price, m.quantity)
                  ELSE book.yes,
          no |-> IF m.side = "no" THEN SetLevel(book.no, m.price, m.quantity)
                 ELSE book.no,
          seq |-> book.seq + 1, gap |-> NoGap]
    ELSE GapDetected(book, m)

ApplyDelta(book, m) ==
    IF book.state # "Live"
    THEN [book EXCEPT !.gap = NoGap]
    ELSE IF m.seq = book.seq + 1
    THEN [state |-> "Live",
          yes |-> IF m.side = "yes" THEN SetLevel(book.yes, m.price, m.quantity)
                  ELSE book.yes,
          no |-> IF m.side = "no" THEN SetLevel(book.no, m.price, m.quantity)
                 ELSE book.no,
          seq |-> book.seq + 1, gap |-> NoGap]
    ELSE GapDetected(book, m)

\* the book becomes b after message m
Deliver(m, b) ==
    /\ book_state' = b.state
    /\ yes' = b.yes
    /\ no' = b.no
    /\ seq' = b.seq
    /\ gap' = b.gap
    /\ msg' = m
    /\ prev_state' = book_state

BookInit ==
    /\ IdlePipeline
    /\ IdleSigner
    /\ IdleBook
    /\ IdleQuotes
    /\ IdleLimiter
    /\ IdleMve

\* the feed delivers a snapshot
OnSnapshot ==
    /\ \E m \in Snapshots : Deliver(m, ApplySnapshot(Book, m))
    /\ UNCHANGED <<pipeline_vars, sign_vars, quote_vars, limiter_vars, mve_vars>>

\* the feed delivers a delta
OnDelta ==
    /\ \E m \in Deltas : Deliver(m, ApplyDelta(Book, m))
    /\ UNCHANGED <<pipeline_vars, sign_vars, quote_vars, limiter_vars, mve_vars>>

BookNext == OnSnapshot \/ OnDelta

BookSpec == BookInit /\ [][BookNext]_vars

----------------------------------------------------------------------------
(* The best-bid properties of OrderbookResponse: pure functions of the     *)
(* parsed orderbook, whose yes and no fields are None or a list of         *)
(* [price, quantity] pairs in whatever order the exchange sent them.       *)

\* the longest level list of an orderbook
MaxLevels == 2

\* the prices (in cents) of the parsed levels
QuotePrices == {1, 99}

\* [price, quantity] pairs
Pairs == {<<p, q>> : p \in QuotePrices, q \in 1..MaxQty}

PairLists == UNION {[1..n -> Pairs] : n \in 0..MaxLevels}

OptionalPairLists == {NoneList} \cup {SomeList(l) : l \in PairLists}

Orderbooks == [yes : OptionalPairLists, no : OptionalPairLists]

\* Python's truth value of an Optional[list]
Truthy(side) == ~side.is_none /\ Len(side.list) > 0

\* max(p[0] for p in levels)
MaxPrice_Min(levels) ==
    CHOOSE x \in {levels[i][1] : i \in DOMAIN levels} :
        \A j \in DOMAIN levels : levels[j][1] >= x

MaxPrice(levels) ==
    CHOOSE x \in {levels[i][1] : i \in DOMAIN levels} :
        \A j \in DOMAIN levels : levels[j][1] <= x

BestYesBid(ob) ==
    IF ~Truthy(ob.yes)
    THEN NoneInt
    ELSE IF Truthy(ob.yes) THEN Some(MaxPrice(ob.yes.list)) ELSE NoneInt

BestNoBid(ob) ==
    IF ~Truthy(ob.no)
    THEN NoneInt
    ELSE IF Truthy(ob.no) THEN Some(MaxPrice(ob.no.list)) ELSE NoneInt

\* an OrderbookResponse has been parsed
QuoteInit ==
    /\ IdlePipeline
    /\ IdleSigner
    /\ IdleBook
    /\ IdleLimiter
    /\ IdleMve
    /\ orderbook \in Orderbooks
    /\ best_yes_bid = NoneInt
    /\ best_no_bid = NoneInt
    /\ quote_pc = "loaded"

\* the caller reads both properties
ReadBestBids ==
    /\ quote_pc = "loaded"
    /\ best_yes_bid' = BestYesBid(orderbook)
    /\ best_no_bid' = BestNoBid(orderbook)
    /\ quote_pc' = "read"
    /\ UNCHANGED <<orderbook, pipeline_vars, sign_vars, book_vars, limiter_vars,
                   mve_vars>>

QuoteNext == ReadBestBids

QuoteSpec == QuoteInit /\ [][QuoteNext]_vars

----------------------------------------------------------------------------
(* The rate limiter shared by the requests in flight.  Each request runs   *)
(* the loop of _request: acquire(), dispatch, and update() once a response *)
(* has arrived.  The active policy is a windowed counter whose state       *)
(* transitions run inside a mutual-exclusion section: acquire() reads the  *)
(* counter on entering the section and writes it on leaving, and the other *)
(* requests run in between.  The no-op policy keeps no lock.               *)

\* how long acquire() waits for the next window when the budget is used up
Window == 1

\* the quota headers of a response: the remaining budget, when reported
QuotaHeaders == {NoneInt} \cup {Some(n) : n \in 0..Capacity}

Limiters == {[policy |-> "noop", tokens |-> Capacity],
             [policy |-> "active", tokens |-> Capacity]}

\* acquire() of the active policy: takes one unit of budget, waiting for
\* the next window when none is left
RateLimiterAcquire(l) ==
    IF l.tokens > 0
    THEN [wait |-> 0, limiter |-> [l EXCEPT !.tokens = @ - 1]]
    ELSE [wait |-> Window, limiter |-> [l EXCEPT !.tokens = Capacity - 1]]

\* update() of the active policy: recalibrates to the reported budget
RateLimiterUpdate(l, headers) ==
    IF headers.is_none THEN l ELSE [l EXCEPT !.tokens = headers.value]

\* acquire() of the no-op policy
NoOpRateLimiterAcquire_Counting(l) == RateLimiterAcquire(l)

NoOpRateLimiterAcquire(l) == [wait |-> 0, limiter |-> l]

\* update() of the no-op policy
NoOpRateLimiterUpdate(l, headers) == l

\* the limiter's mutual exclusion
LockFree_Always(holder) == TRUE

LockFree(holder) == holder = NoHolder

\* the budget accounting of the window: a refill or a recalibration opens
\* a new window, a grant without wait uses one unit of the current one
WindowAfterAcquire(w, wt) ==
    IF wt = 0
    THEN [w EXCEPT !.grants = @ + 1]
    ELSE [budget |-> Capacity, grants |-> 1]

WindowAfterUpdate(w, headers) ==
    IF headers.is_none THEN w ELSE [budget |-> headers.value, grants |-> 0]

\* the loop of _request goes round again, or the call ends
AfterAttempt(i, retry) ==
    IF retry /\ racq[i] < MaxDispatches THEN "acquire" ELSE "done"

LimiterInit ==
    /\ IdlePipeline
    /\ IdleSigner
    /\ IdleBook
    /\ IdleQuotes
    /\ IdleMve
    /\ limiter \in Limiters
    /\ lock = NoHolder
    /\ rpc = [i \in Requests |-> "acquire"]
    /\ local = [i \in Requests |-> NoneInt]
    /\ rwait = [i \in Requests |-> 0]
    /\ racq = [i \in Requests |-> 0]
    /\ last_update = NoneInt
    /\ serial = limiter
    /\ serial_wait = [i \in Requests |-> 0]
    /\ window = [budget |-> Capacity, grants |-> 0]

\* acquire() enters the critical section and reads the counter
AcquireEnter(i) ==
    /\ limiter.policy = "active"
    /\ rpc[i] = "acquire"
    /\ LockFree(lock)
    /\ lock' = i
    /\ local' = [local EXCEPT ![i] = Some(limiter.tokens)]
    /\ rpc' = [rpc EXCEPT ![i] = "acquiring"]
    /\ UNCHANGED <<limiter, rwait, racq, last_update, serial, serial_wait, window>>

\* acquire() writes the counter, leaves the critical section and returns
AcquireCommit(i) ==
    /\ rpc[i] = "acquiring"
    /\ LET res == RateLimiterAcquire([limiter EXCEPT !.tokens = local[i].value])
           ser == RateLimiterAcquire(serial)
       IN  /\ limiter' = res.limiter
           /\ rwait' = [rwait EXCEPT ![i] = res.wait]
           /\ serial' = ser.limiter
           /\ serial_wait' = [serial_wait EXCEPT ![i] = ser.wait]
           /\ window' = WindowAfterAcquire(window, res.wait)
    /\ lock' = NoHolder
    /\ local' = [local EXCEPT ![i] = NoneInt]
    /\ racq' = [racq EXCEPT ![i] = @ + 1]
    /\ rpc' = [rpc EXCEPT ![i] = "send"]
    /\ UNCHANGED last_update

\* acquire() of the no-op policy
NoOpAcquire(i) ==
    /\ limiter.policy = "noop"
    /\ rpc[i] = "acquire"
    /\ LET res == NoOpRateLimiterAcquire(limiter)
       IN  /\ limiter' = res.limiter
           /\ rwait' = [rwait EXCEPT ![i] = res.wait]
           /\ serial' = res.limiter
           /\ serial_wait' = [serial_wait EXCEPT ![i] = res.wait]
    /\ racq' = [racq EXCEPT ![i] = @ + 1]
    /\ rpc' = [rpc EXCEPT ![i] = "send"]
    /\ UNCHANGED <<lock, local, last_update, window>>

\* the request is handed to the transport
Dispatch(i) ==
    /\ rpc[i] = "send"
    /\ rpc' = [rpc EXCEPT ![i] = "request"]
    /\ UNCHANGED <<limiter, lock, local, rwait, racq, last_update, serial,
                   serial_wait, window>>

\* the transport fails: no update(), the loop retries or the call ends
DispatchFails(i) ==
    /\ rpc[i] = "request"
    /\ rpc' = [rpc EXCEPT ![i] = AfterAttempt(i, TRUE)]
    /\ UNCHANGED <<limiter, lock, local, rwait, racq, last_update, serial,
                   serial_wait, window>>

\* a response arrives, with or without quota headers
ResponseArrives(i) ==
    /\ rpc[i] = "request"
    /\ \E headers \in QuotaHeaders : local' = [local EXCEPT ![i] = headers]
    /\ rpc' = [rpc EXCEPT ![i] = "update"]
    /\ UNCHANGED <<limiter, lock, rwait, racq, last_update, serial, serial_wait,
                   window>>

\* update() of the active policy, inside the critical section
Update(i) ==
    /\ limiter.policy = "active"
    /\ rpc[i] = "update"
    /\ LockFree(lock)
    /\ limiter' = RateLimiterUpdate(limiter, local[i])
    /\ serial' = RateLimiterUpdate(serial, local[i])
    /\ window' = WindowAfterUpdate(window, local[i])
    /\ last_update' = local[i]
    /\ local' = [local EXCEPT ![i] = NoneInt]
    /\ \E retry \in BOOLEAN : rpc' = [rpc EXCEPT ![i] = AfterAttempt(i, retry)]
    /\ UNCHANGED <<lock, rwait, racq, serial_wait>>

\* update() of the no-op policy
NoOpUpdate(i) ==
    /\ limiter.policy = "noop"
    /\ rpc[i] = "update"
    /\ limiter' = NoOpRateLimiterUpdate(limiter, local[i])
    /\ serial' = NoOpRateLimiterUpdate(serial, local[i])
    /\ last_update' = local[i]
    /\ local' = [local EXCEPT ![i] = NoneInt]
    /\ \E retry \in BOOLEAN : rpc' = [rpc EXCEPT ![i] = AfterAttempt(i, retry)]
    /\ UNCHANGED <<lock, rwait, racq, serial_wait, window>>

LimiterNext ==
    \E i \in Requests :
        /\ \/ AcquireEnter(i)
           \/ AcquireCommit(i)
           \/ NoOpAcquire(i)
           \/ Dispatch(i)
           \/ DispatchFails(i)
           \/ ResponseArrives(i)
           \/ Update(i)
           \/ NoOpUpdate(i)
        /\ UNCHANGED <<pipeline_vars, sign_vars, book_vars, quote_vars, mve_vars>>

LimiterSpec == LimiterInit /\ [][LimiterNext]_vars

----------------------------------------------------------------------------
(* Equality and hashing of MveCollection.  The == operator calls           *)
(* MveCollection.__eq__; when that returns NotImplemented Python asks the  *)
(* right operand's __eq__ and, when that declines too, compares the        *)
(* identities of the two objects.                                          *)

NotImplemented == "NotImplemented"

MveClasses == {"MveCollection", "AsyncMveCollection"}

CollectionTickers == {"COL-1", "COL-2", "COL-3"}

Titles == {None, "Test"}

MveCollections ==
    {Object(c, id, t, ti) :
        c \in MveClasses, id \in {"c1"}, t \in CollectionTickers, ti \in Titles}

\* what a collection is compared with: another collection, a string that
\* spells a collection ticker, or an Event whose data carries the same field
OtherObjects ==
    {Object(c, id, t, ti) :
        c \in MveClasses, id \in {"c2"}, t \in CollectionTickers, ti \in Titles}
    \cup {Object("str", "s", t, None) : t \in CollectionTickers}
    \cup {Object("Event", "e", t, "Test") : t \in CollectionTickers}

\* isinstance(other, MveCollection)
IsInstanceMveCollection(other) == other.class \in MveClasses

\* hash() of a str: equal strings hash alike, different ones may collide
StrHash(str) ==
    CASE str = "COL-1" -> 1
      [] str = "COL-2" -> 2
      [] str = "COL-3" -> 1
      [] OTHER -> 0

\* MveCollection.__eq__
MveCollectionEq_AllFields(self, other) ==
    IF ~IsInstanceMveCollection(other)
    THEN NotImplemented
    ELSE IF self.data = other.data THEN "True" ELSE "False"

MveCollectionEq(self, other) ==
    IF ~IsInstanceMveCollection(other)
    THEN NotImplemented
    ELSE IF self.data.collection_ticker = other.data.collection_ticker
         THEN "True" ELSE "False"

\* MveCollection.__hash__
MveCollectionHash(self) == StrHash(self.data.collection_ticker)

\* __eq__ of the classes that are not MveCollection: str.__eq__ and
\* object.__eq__ decline an operand of a foreign class
ForeignEq(self, other) == NotImplemented

\* a == b, with a an MveCollection
PyEq(a, b) ==
    LET first == MveCollectionEq(a, b)
        reflected == IF IsInstanceMveCollection(b)
                     THEN MveCollectionEq(b, a) ELSE ForeignEq(b, a)
    IN  IF first # NotImplemented THEN first = "True"
        ELSE IF reflected # NotImplemented THEN reflected = "True"
        ELSE a.id = b.id

\* hash(b)
PyHash(b) ==
    IF IsInstanceMveCollection(b) THEN MveCollectionHash(b)
    ELSE StrHash(b.data.collection_ticker)

MveInit ==
    /\ IdlePipeline
    /\ IdleSigner
    /\ IdleBook
    /\ IdleQuotes
    /\ IdleLimiter
    /\ mve_self \in MveCollections
    /\ mve_other \in OtherObjects
    /\ eq_result = FALSE
    /\ hash_self = 0
    /\ hash_other = 0
    /\ mve_pc = "built"

\* the two objects are compared and hashed
Compare ==
    /\ mve_pc = "built"
    /\ eq_result' = PyEq(mve_self, mve_other)
    /\ hash_self' = MveCollectionHash(mve_self)
    /\ hash_other' = PyHash(mve_other)
    /\ mve_pc' = "compared"
    /\ UNCHANGED <<mve_self, mve_other, pipeline_vars, sign_vars, book_vars,
                   quote_vars, limiter_vars>>

MveNext == Compare

MveSpec == MveInit /\ [][MveNext]_vars

----------------------------------------------------------------------------
(* Properties.                                                             *)

O200 == Outcome("response", 200)
O429 == Outcome("response", 429)
O500 == Outcome("response", 500)
OTimeout == Outcome("timeout", 0)
OConnect == Outcome("connect", 0)

Attempts == BagCardinality(outcomes)
InFlight == {"acquire", "send", "request", "sleep"}
Over == {"handle", "returned", "raised"}

\* C1: one _request dispatches at most max_retries + 1 HTTP requests, every
\* outcome belongs to a dispatch, the loop is never left by running out of
\* iterations (line 136), and once the last permitted dispatch has its
\* outcome the call is over: it has returned a response or raised.  Until
\* then some step is always possible, so the call cannot hang either.
C1_BoundedDispatches ==
    /\ calls <= max_retries + 1
    /\ attempt <= max_retries
    /\ Attempts <= calls
    /\ pc # "line136"
    /\ (calls = max_retries + 1 /\ pc # "request") => pc \in Over
    /\ pc \in InFlight => ENABLED Next

C1_Witness ==
    /\ pc = "raised"
    /\ max_retries = 3
    /\ calls = 4
    /\ CopiesIn(OTimeout, outcomes) = 1
    /\ CopiesIn(OConnect, outcomes) = 1
    /\ CopiesIn(O500, outcomes) = 1
    /\ last = O429

\* C2: when the first k attempts were answered 429 and attempt k + 1 was
\* answered 200, _request has returned that 200 response after exactly
\* k + 1 dispatches, the handler maps it to its body, and paginated_get
\* receives that body: no error of the earlier 429s reaches the caller.
C2_RetryThenSuccess ==
    (/\ last = O200
     /\ CopiesIn(O200, outcomes) = 1
     /\ CopiesIn(O429, outcomes) = Attempts - 1)
    => /\ calls = CopiesIn(O429, outcomes) + 1
       /\ req_result.kind = "return"
       /\ req_result.response.status_code = 200
       /\ pc \in {"handle", "returned"}
       /\ HandleResponse(req_result.response) =
              [kind |-> "return", body |-> req_result.response.data]
       /\ pc = "returned" =>
              /\ result.kind = "return"
              /\ pages[Len(pages)] = req_result.response.data

C2_Witness ==
    /\ max_retries = 3
    /\ last = O200
    /\ CopiesIn(O429, outcomes) = 2
    /\ Attempts = 3
    /\ calls = 3
    /\ pc = "returned"

\* C3: when every attempt was answered 429, the call raises RateLimitError
\* after exactly max_retries + 1 dispatches, not earlier, and the error
\* carries the method and the endpoint of the request.
C3_RateLimitExhausted ==
    /\ CopiesIn(O429, outcomes) = max_retries + 1 =>
          /\ pc = "raised"
          /\ calls = max_retries + 1
          /\ result.kind = "raise"
          /\ result.error.class = "RateLimitError"
          /\ result.error.status_code = 429
          /\ result.error.method = "GET"
          /\ result.error.endpoint = endpoint
          /\ req_result = result
    /\ (/\ Attempts >= 1
        /\ Attempts <= max_retries
        /\ CopiesIn(O429, outcomes) = Attempts) =>
          /\ pc \in InFlight
          /\ result.kind = "none"

C3_Witness ==
    /\ max_retries = 2
    /\ CopiesIn(O429, outcomes) = 3
    /\ calls = 3
    /\ pc = "raised"
    /\ result.error.class = "RateLimitError"
    /\ result.error.endpoint = <<"/markets", "?", "limit", "=", "50">>

\* C4: when the last permitted attempt is answered with a retryable status
\* other than 429, _request returns that response, and the handler turns it
\* into the API error of that status: neither RateLimitError nor a success.
C4_ServerErrorReturned ==
    (/\ Attempts = max_retries + 1
     /\ last.kind = "response"
     /\ last.status_code \in RETRYABLE_STATUS_CODES \ {429})
    => /\ req_result.kind = "return"
       /\ req_result.response.status_code = last.status_code
       /\ pc \in {"handle", "raised"}
       /\ HandleResponse(req_result.response).kind = "raise"
       /\ pc = "raised" =>
              /\ result.kind = "raise"
              /\ result.error = ApiError(HandleResponse(req_result.response).error)
              /\ result.error.class \in {"KalshiAPIError", "InsufficientFundsError"}
              /\ result.error.status_code = last.status_code

C4_Witness ==
    /\ max_retries = 2
    /\ Attempts = 3
    /\ CopiesIn(O429, outcomes) = 2
    /\ last = O500
    /\ pc = "raised"
    /\ result.error.class = "KalshiAPIError"
    /\ result.error.status_code = 500

\* C5: after a timeout or a connection error the call retries while attempts
\* remain; when the failure is that of the last permitted attempt the
\* transport's own exception reaches the caller, not an API error.
C5_TransportFailure ==
    last.kind \in {"timeout", "connect"} =>
        IF Attempts <= max_retries
        THEN /\ pc \in InFlight
             /\ result.kind = "none"
        ELSE /\ pc = "raised"
             /\ result = Raised(TransportError(IF last.kind = "timeout"
                                               THEN "TimeoutException"
                                               ELSE "ConnectError"))
             /\ req_result = result

C5_Witness ==
    /\ max_retries = 2
    /\ Attempts = 3
    /\ CopiesIn(OTimeout, outcomes) = 2
    /\ last = OConnect
    /\ pc = "raised"
    /\ result.error.class = "ConnectError"

\* the response _request handed to _handle_response, once it is handled
HandledResponse == req_result.kind = "return" /\ pc # "handle"

FundsCodes == {"insufficient_funds", "insufficient_balance"}

\* the exchange code of an error body: code, or else error_code
ExchangeCode(response) ==
    IF ~response.json THEN None
    ELSE IF response.data.code # Absent THEN response.data.code
    ELSE IF response.data.error_code # Absent THEN response.data.error_code
    ELSE None

C7_FundsErrorExcept404 ==
    (/\ HandledResponse
     /\ req_result.response.status_code >= 400
     /\ req_result.response.status_code # 404
     /\ ExchangeCode(req_result.response) \in FundsCodes)
    => /\ pc = "raised"
       /\ result.error.class = "InsufficientFundsError"

\* C7, amended: every error response whose status is none of 401, 403 and
\* 404 and whose exchange code is insufficient_funds or insufficient_balance
\* is raised as InsufficientFundsError, with that status and code; with
\* status 401 or 403 the same body is raised as AuthenticationError, and
\* with 404 as ResourceNotFoundError.
C7_FundsErrorExceptAuthAnd404 ==
    (/\ HandledResponse
     /\ req_result.response.status_code >= 400
     /\ ExchangeCode(req_result.response) \in FundsCodes)
    => /\ pc = "raised"
       /\ result.error.status_code = req_result.response.status_code
       /\ result.error.error_code = ExchangeCode(req_result.response)
       /\ result.error.class =
              IF req_result.response.status_code \in {401, 403}
              THEN "AuthenticationError"
              ELSE IF req_result.response.status_code = 404
                   THEN "ResourceNotFoundError"
                   ELSE "InsufficientFundsError"

C7_Witness ==
    /\ pc = "raised"
    /\ HandledResponse
    /\ req_result.response.status_code = 400
    /\ req_result.response.data.error_code = "insufficient_balance"
    /\ result.error.class = "InsufficientFundsError"
    /\ result.error.error_code = "insufficient_balance"

\* the last two signings are of the same method and path at the same
\* timestamp, the earlier without a query string and the later with one
SameRequestButQuery ==
    /\ prev_signing.method # None
    /\ signing.method = prev_signing.method
    /\ signing.path = prev_signing.path
    /\ signing.ts = prev_signing.ts
    /\ prev_signing.query = <<>>
    /\ signing.query # <<>>

\* C8 as stated: signing an endpoint with a query string gives the identical
\* signature as signing the same method and endpoint without it at the same
\* timestamp.
C8_IdenticalSignature ==
    SameRequestButQuery =>
        signing.request.headers.signature = prev_signing.request.headers.signature

\* C8, amended: signing an endpoint with a query string signs the identical
\* message as signing the same method and endpoint without it at the same
\* timestamp, namely timestamp + method + versioned path with the query
\* string excluded, so the two signatures are identical whenever the signer
\* draws the same PSS salt (RSA-PSS is randomised: with different salts the
\* signatures differ); the URL of the request is the full endpoint, query
\* string included.
C8_IdenticalSignedMessage ==
    /\ SameRequestButQuery =>
          /\ signing.request.headers.signature.over =
                 prev_signing.request.headers.signature.over
          /\ signing.request.headers.timestamp = prev_signing.request.headers.timestamp
          /\ signing.salt = prev_signing.salt =>
                 signing.request.headers.signature =
                     prev_signing.request.headers.signature
          /\ signing.request.url # prev_signing.request.url
    /\ signing.method # None =>
          /\ signing.request.headers.signature.over =
                 <<signing.ts, signing.method, "/trade-api/v2">> \o signing.path
          /\ signing.request.headers.timestamp = signing.ts
          /\ signing.request.url =
                 IF signing.query = <<>>
                 THEN api_base \o signing.path
                 ELSE api_base \o signing.path \o <<"?">> \o UrlEncode(signing.query)

C8_Witness ==
    /\ SameRequestButQuery
    /\ signing.method = "GET"
    /\ signing.path = <<"/markets">>
    /\ signing.query = <<<<"status", "open">>>>
    /\ signing.salt = prev_signing.salt
    /\ signing.request.headers.signature = prev_signing.request.headers.signature
    /\ signing.request.url =
           api_base \o <<"/markets", "?", "status", "=", "open">>

RECURSIVE FlattenItems(_)
FlattenItems(ps) ==
    IF ps = <<>> THEN <<>>
    ELSE (IF Head(ps).has_items THEN Head(ps).items ELSE <<>>) \o FlattenItems(Tail(ps))

HasNext(body) == body.cursor \notin {Absent, ""}

\* C9: with fetch_all, paginated_get returns the items of the pages it was
\* served, in page order and item order, nothing reordered, dropped or
\* deduplicated; the pages are those up to and including the first whose
\* cursor is empty or absent, and each took exactly one get().
C9_FetchAllConcatenates ==
    fetch_all =>
        /\ all_items = FlattenItems(pages)
        /\ \A i \in 1..(Len(pages) - 1) : HasNext(pages[i])
        /\ pc = "returned" =>
              /\ result = [kind |-> "return", items |-> FlattenItems(pages)]
              /\ Len(pages) >= 1
              /\ ~HasNext(pages[Len(pages)])
              /\ gets = Len(pages)
        /\ pc \in InFlight \cup {"handle", "raised"} =>
              /\ gets = Len(pages) + 1
              /\ Len(pages) >= 1 => HasNext(pages[Len(pages)])

C9_Witness ==
    /\ fetch_all
    /\ pc = "returned"
    /\ Len(pages) = 2
    /\ pages[1].items = <<"A", "B">> /\ pages[1].cursor = "p2"
    /\ pages[2].items = <<"C">> /\ pages[2].cursor = ""
    /\ result.items = <<"A", "B", "C">>
    /\ gets = 2

\* C10: without fetch_all, paginated_get makes exactly one get() and returns
\* the items of that first page, whatever cursor the page carries.
C10_SinglePage ==
    ~fetch_all =>
        /\ gets <= 1
        /\ Len(pages) <= 1
        /\ pc = "returned" =>
              /\ gets = 1
              /\ Len(pages) = 1
              /\ result = [kind |-> "return", items |-> GetItems(pages[1])]
              /\ pages[1] = req_result.response.data

C10_Witness ==
    /\ ~fetch_all
    /\ pc = "returned"
    /\ gets = 1
    /\ pages[1].cursor = "p2"
    /\ result.items = <<"A", "B">>

----------------------------------------------------------------------------
(* The order-book engine (BookSpec).                                       *)

\* the levels of a side at the prices other than price
OtherLevels(levels, price) == {l \in levels : l.price # price}

\* the levels of a side at price
LevelsAt(levels, price) == {l \in levels : l.price = price}

\* C11: a snapshot is applied in every state of the book (Uninitialized,
\* Live, Stale): afterwards the book is Live, both sides are exactly the
\* snapshot's sides, so that no level of the previous book survives, and the
\* sequence number is the snapshot's.
C11_SnapshotAlwaysValid ==
    msg.kind = "snapshot" =>
        /\ book_state = "Live"
        /\ yes = msg.yes
        /\ no = msg.no
        /\ seq = msg.seq

\* a snapshot resynchronized a Stale book
C11_Witness ==
    /\ msg.kind = "snapshot"
    /\ prev_state = "Stale"
    /\ book_state = "Live"
    /\ yes = {Level(50, 1)}
    /\ no = {}
    /\ seq = msg.seq

\* C12: a delta that reaches a Live book with sequence number current + 1
\* changes only the level at its price on its side (the level is the delta's
\* quantity when that is positive, and is absent when it is zero), leaves the
\* other levels of that side and the whole other side as they were, keeps the
\* book Live and advances the sequence number by exactly 1.
C12_DeltaInSequence ==
    [][ (book_state = "Live" /\ msg'.kind = "delta" /\ msg'.seq = seq + 1) =>
            /\ book_state' = "Live"
            /\ seq' = seq + 1
            /\ msg'.side = "yes" =>
                  /\ no' = no
                  /\ OtherLevels(yes', msg'.price) = OtherLevels(yes, msg'.price)
                  /\ LevelsAt(yes', msg'.price) =
                        IF msg'.quantity > 0
                        THEN {Level(msg'.price, msg'.quantity)} ELSE {}
            /\ msg'.side = "no" =>
                  /\ yes' = yes
                  /\ OtherLevels(no', msg'.price) = OtherLevels(no, msg'.price)
                  /\ LevelsAt(no', msg'.price) =
                        IF msg'.quantity > 0
                        THEN {Level(msg'.price, msg'.quantity)} ELSE {}
      ]_vars

\* after a snapshot with sequence number 1, the delta (yes, 50, 2) with
\* sequence number 2 left the yes side with 50 at quantity 2
C12_Witness ==
    /\ msg.kind = "delta"
    /\ msg.side = "yes"
    /\ msg.price = 50
    /\ msg.quantity = 2
    /\ msg.seq = 2
    /\ prev_state = "Live"
    /\ book_state = "Live"
    /\ seq = 2
    /\ yes = {Level(40, 1), Level(50, 2)}
    /\ no = {Level(40, 1)}

\* C13: a delta that reaches a Live book with a sequence number other than
\* current + 1 is not applied: the book becomes Stale, both sides are
\* emptied, and a gap naming the expected and the received sequence number
\* is reported.
C13_GapMakesStale ==
    [][ (book_state = "Live" /\ msg'.kind = "delta" /\ msg'.seq # seq + 1) =>
            /\ book_state' = "Stale"
            /\ yes' = {}
            /\ no' = {}
            /\ gap' = [expected |-> seq + 1, received |-> msg'.seq]
      ]_vars

\* a delta with sequence number 3 reached a book at sequence number 1
C13_Witness ==
    /\ msg.kind = "delta"
    /\ msg.seq = 3
    /\ prev_state = "Live"
    /\ seq = 1
    /\ book_state = "Stale"
    /\ gap = [expected |-> 2, received |-> 3]
    /\ yes = {}
    /\ no = {}

\* C14: a book that is Uninitialized or Stale changes state only by a
\* snapshot; a delta that reaches it leaves the state as it was and both
\* sides empty, whatever its sequence number.
C14_OnlySnapshotRevives ==
    [][ book_state # "Live" =>
            /\ book_state' # book_state => msg'.kind = "snapshot"
            /\ msg'.kind = "delta" =>
                  /\ book_state' = book_state
                  /\ yes' = {}
                  /\ no' = {}
      ]_vars

\* a delta carrying the last known sequence number + 1 reached a Stale book
C14_Witness ==
    /\ msg.kind = "delta"
    /\ prev_state = "Stale"
    /\ msg.seq = seq + 1
    /\ msg.quantity > 0
    /\ book_state = "Stale"
    /\ yes = {}
    /\ no = {}

----------------------------------------------------------------------------
(* The best-bid properties (QuoteSpec).                                    *)

\* the prices listed on a side of the parsed orderbook
ListedPrices(side) == {side.list[i][1] : i \in DOMAIN side.list}

\* value is the greatest price listed on side, None when side lists none
IsBestOf(value, side) ==
    IF side.is_none \/ ListedPrices(side) = {}
    THEN value = NoneInt
    ELSE /\ ~value.is_none
         /\ value.value \in ListedPrices(side)
         /\ \A p \in ListedPrices(side) : p <= value.value

\* C16: best_yes_bid is the greatest price among the yes levels and
\* best_no_bid the greatest price among the no levels, each computed from
\* its own side only; a side that is None or empty gives None.
C16_BestBids ==
    quote_pc = "read" =>
        /\ IsBestOf(best_yes_bid, orderbook.yes)
        /\ IsBestOf(best_no_bid, orderbook.no)

\* the yes side lists its greatest price last, the no side is absent
C16_Witness ==
    /\ quote_pc = "read"
    /\ orderbook.yes = SomeList(<<<<1, 1>>, <<99, 2>>>>)
    /\ orderbook.no = NoneList
    /\ best_yes_bid = Some(99)
    /\ best_no_bid = NoneInt

----------------------------------------------------------------------------
(* The shared rate limiter (LimiterSpec).                                  *)

\* C17: the no-op rate limiter's acquire() returns wait 0 in every state,
\* whatever acquire() and update() calls came before, and no update()
\* changes what acquire() returns.
C17_NoOpAlwaysZero ==
    limiter.policy = "noop" =>
        /\ NoOpRateLimiterAcquire(limiter).wait = 0
        /\ \A i \in Requests : rwait[i] = 0
        /\ \A headers \in QuotaHeaders :
              NoOpRateLimiterAcquire(NoOpRateLimiterUpdate(limiter, headers)).wait
                  = NoOpRateLimiterAcquire(limiter).wait

\* four acquire() calls, more than the active policy's budget, and an
\* update() reporting no budget left
C17_Witness ==
    /\ limiter.policy = "noop"
    /\ \A i \in Requests : racq[i] = MaxDispatches /\ rpc[i] = "done" /\ rwait[i] = 0
    /\ last_update = Some(0)

----------------------------------------------------------------------------
(* Equality of MveCollection (MveSpec).                                    *)

----------------------------------------------------------------------------
(* Rate limiting of the retry loop (Spec).                                 *)

\* C20: with a rate limiter configured, every dispatch of a call, the first
\* and each retry, follows an acquire() of its own attempt that has
\* returned: acquire() has been called once per dispatch made, plus once
\* more exactly while the attempt's dispatch is still to come, and the
\* request in flight is that of the attempt whose acquire() came last.
\* Without a rate limiter acquire() is never called.
C20_AcquireBeforeDispatch ==
    /\ rate_limiter # None =>
          /\ acquires = calls + (IF pc = "send" THEN 1 ELSE 0)
          /\ pc = "send" => acquires = attempt + 1
          /\ pc = "request" => acquires = attempt + 1 /\ sent.attempt = attempt
    /\ rate_limiter = None => acquires = 0

\* the third dispatch of a call, after two retries, with three acquire()s
C20_Witness ==
    /\ rate_limiter # None
    /\ pc = "request"
    /\ attempt = 2
    /\ calls = 3
    /\ acquires = 3

----------------------------------------------------------------------------
(* The retry loop and the pagination loop, continued (Spec).               *)

\* the responses among the outcomes of the _request in progress
ResponsesSeen ==
    LET seen == {o \in BagToSet(outcomes) : o.kind = "response"}
    IN  BagCardinality([o \in seen |-> outcomes[o]])

\* C21: with a rate limiter configured, update() has been called exactly
\* once for every response the _request has received, whether the response
\* is then retried, returned or turned into the rate-limit error, and the
\* call is made by the time that decision shows; attempts that ended in a
\* transport failure add no update().  Without a rate limiter there is no
\* update().
C21_UpdatePerResponse ==
    /\ rate_limiter # None => updates = ResponsesSeen
    /\ rate_limiter = None => updates = 0
    /\ (rate_limiter # None /\ last.kind = "response" /\ pc \in {"sleep", "handle", "raised"})
          => updates >= 1

\* a timeout, a 429 that was retried and a 500 on the last attempt: two
\* update() calls for three dispatches
C21_Witness ==
    /\ rate_limiter # None
    /\ max_retries = 2
    /\ pc = "handle"
    /\ calls = 3
    /\ updates = 2
    /\ CopiesIn(OTimeout, outcomes) = 1
    /\ CopiesIn(O429, outcomes) = 1
    /\ last = O500

----------------------------------------------------------------------------
(* Signing inside the retry loop (RetrySignSpec).                          *)

\* C22: the headers of every dispatch, the first and each retry, are built
\* in the pass that dispatches them: while the request is in flight its
\* timestamp is the clock reading of that moment, taken after the acquire()
\* of the same attempt, the signature covers that timestamp, and the
\* headers of the attempt before carry no later timestamp.
C22_SignedAfresh ==
    pc = "request" =>
        /\ signing.ts = clock
        /\ signing.request.headers.timestamp = clock
        /\ Head(signing.request.headers.signature.over) = clock
        /\ rate_limiter # None => acquires = attempt + 1
        /\ calls = attempt + 1
        /\ attempt >= 1 => prev_signing # NoSigning /\ prev_signing.ts <= signing.ts

\* the third dispatch, at time 3, carries a timestamp of 3; the dispatch
\* before it was signed at time 1
C22_Witness ==
    /\ pc = "request"
    /\ rate_limiter # None
    /\ attempt = 2
    /\ clock = 3
    /\ signing.ts = 3
    /\ prev_signing.ts = 1

\* the key=value pairs of the query string of endpoint e
QueryPairs(e) == {<<e[i - 1], e[i + 1]>> : i \in {j \in 2..(Len(e) - 1) : e[j] = "="}}

\* the entries of the caller's mapping that have a value, the cursor aside
CallerPairs ==
    {caller_params[i] : i \in {j \in DOMAIN caller_params :
                                  /\ caller_params[j][2] # None
                                  /\ caller_params[j][1] # "cursor"}}

\* C23: the request for page N + 1 exists only once the responses of pages
\* 1..N have been received, its query string carries exactly the cursor
\* string of page N's response and the caller's parameters that have a
\* value, unchanged, and no parameter whose value is None; the first request
\* carries the caller's parameters that have a value and nothing else.  What
\* is dispatched is that endpoint.
C23_SequentialVerbatimCursor ==
    (gets >= 1 /\ pc \in InFlight) =>
        /\ Len(pages) = gets - 1
        /\ \A pair \in QueryPairs(endpoint) : pair[2] # None
        /\ gets = 1 =>
              QueryPairs(endpoint) =
                  {caller_params[i] : i \in {j \in DOMAIN caller_params :
                                                caller_params[j][2] # None}}
        /\ gets >= 2 =>
              /\ pages[gets - 1].cursor \notin {Absent, ""}
              /\ QueryPairs(endpoint) =
                    CallerPairs \cup {<<"cursor", pages[gets - 1].cursor>>}
        /\ pc \in {"request", "sleep"} => sent.url = api_base \o endpoint

\* the second page of a fetch with limit=50 is requested with the cursor
\* p2 of the first page
C23_Witness ==
    /\ pc = "request"
    /\ gets = 2
    /\ caller_params = <<<<"limit", "50">>>>
    /\ pages[1].cursor = "p2"
    /\ endpoint = <<"/markets", "?", "limit", "=", "50", "&", "cursor", "=", "p2">>
    /\ sent.url = api_base \o endpoint

----------------------------------------------------------------------------
(* The backoff delay (BackoffSpec).                                        *)

\* base * 2^attempt, held at the cap
CappedExponential(att) ==
    IF BackoffBase * (2 ^ att) <= BackoffCap THEN BackoffBase * (2 ^ att) ELSE BackoffCap

\* C24: the delay slept before a retry is the Retry-After value of the
\* response when the response carries one, and otherwise base * 2^attempt,
\* never more than the cap; after a transport failure it is always that
\* capped exponential value.
C24_BackoffDelay ==
    pc = "sleep" =>
        /\ req_result.kind = "raise" => wait = CappedExponential(attempt)
        /\ req_result.kind = "return" =>
              /\ req_result.response.retry_after = "7" => wait = 7
              /\ req_result.response.retry_after = "120" => wait = 120
              /\ req_result.response.retry_after = None =>
                    wait = CappedExponential(attempt)
        /\ (req_result.kind = "raise" \/ req_result.response.retry_after = None) =>
              /\ wait <= BackoffCap
              /\ wait >= BackoffBase

\* attempt 6 of a 429 without Retry-After: 64 is held at the cap of 60
C24_Witness ==
    /\ pc = "sleep"
    /\ attempt = 6
    /\ req_result.kind = "return"
    /\ req_result.response.status_code = 429
    /\ req_result.response.retry_after = None
    /\ wait = BackoffCap

\* the transport failures among the outcomes of the _request in progress
TransportFailures == Attempts - ResponsesSeen

\* C25: timeouts, connection errors and retryable statuses use up the same
\* attempts: every retried outcome, of whatever kind, advanced the one loop
\* index, so the outcomes of all kinds together, and the dispatches, never
\* exceed max_retries + 1.
C25_SharedAttemptBudget ==
    /\ TransportFailures + ResponsesSeen <= max_retries + 1
    /\ calls <= max_retries + 1
    /\ pc \in {"acquire", "send", "request"} => Attempts = attempt
    /\ pc = "sleep" => Attempts = attempt + 1 /\ attempt < max_retries
    /\ pc = "request" => calls = attempt + 1

\* max_retries = 2: a timeout, then a 500, then a 429 on the third and
\* last dispatch, which ends the call
C25_Witness ==
    /\ max_retries = 2
    /\ pc = "raised"
    /\ calls = 3
    /\ CopiesIn(OTimeout, outcomes) = 1
    /\ CopiesIn(O500, outcomes) = 1
    /\ last = O429
    /\ Attempts = 3

\* the _request in progress ended in the rate-limit error
RateLimitRaised ==
    req_result.kind = "raise" /\ req_result.error.class = "RateLimitError"

\* C26: when the last permitted attempt has its outcome, that outcome alone
\* decides how _request ends: the rate-limit error is raised exactly when
\* the last response is a 429; a last response with any other status is
\* returned, also when earlier attempts were answered 429; and a transport
\* failure of the last attempt is raised as the transport's exception.
C26_LastAttemptDecides ==
    /\ (Attempts = max_retries + 1 /\ pc \in Over) =>
          /\ RateLimitRaised <=> last = O429
          /\ (last.kind = "response" /\ last # O429) =>
                /\ req_result.kind = "return"
                /\ req_result.response.status_code = last.status_code
          /\ last.kind \in {"timeout", "connect", "other"} =>
                /\ req_result.kind = "raise"
                /\ req_result.error.class =
                      (CASE last.kind = "timeout" -> "TimeoutException"
                         [] last.kind = "connect" -> "ConnectError"
                         [] last.kind = "other" -> "ReadError")
                /\ result = req_result
    /\ (Attempts >= 1 /\ Attempts <= max_retries) => ~(pc = "raised" /\ last = O429)

\* a 429 and a timeout, then a 500 on the last attempt: the 500 is returned
C26_Witness ==
    /\ max_retries = 2
    /\ Attempts = 3
    /\ CopiesIn(O429, outcomes) = 1
    /\ CopiesIn(OTimeout, outcomes) = 1
    /\ last = O500
    /\ pc = "handle"
    /\ req_result.kind = "return"
    /\ req_result.response.status_code = 500

\* C27: a response whose status is not retryable ends _request on the
\* attempt it arrives: once it is the latest outcome the call has returned
\* it to the handler, there is no dispatch and no acquire() after it, and no
\* backoff sleep; when it answers the first attempt the call made exactly
\* one HTTP request.
C27_NonRetryableEndsCall ==
    (last.kind = "response" /\ last.status_code \notin RETRYABLE_STATUS_CODES) =>
        /\ pc \in Over
        /\ pc # "sleep"
        /\ req_result.kind = "return"
        /\ req_result.response.status_code = last.status_code
        /\ calls = Attempts
        /\ rate_limiter # None => acquires = Attempts
        /\ Attempts = 1 => calls = 1 /\ attempt = 0

\* a 404 on the first attempt, with three retries allowed: one HTTP call,
\* and the not-found error
C27_Witness ==
    /\ max_retries = 3
    /\ rate_limiter # None
    /\ last = Outcome("response", 404)
    /\ Attempts = 1
    /\ calls = 1
    /\ acquires = 1
    /\ pc = "raised"
    /\ result.error.class = "ResourceNotFoundError"

----------------------------------------------------------------------------
(* The pagination loop on its own (PagingSpec).                            *)

\* the cursor of the latest page received, "" when it has none
LastCursor == IF pages = <<>> THEN "" ELSE GetCursor(pages[Len(pages)])

\* C28: with fetch_all, paginated_get is over exactly when a page came
\* without a cursor (it returns) or a page request raised (it raises); a
\* page with a cursor, whatever the number of pages before it and even when
\* the cursor is the one just sent, is always followed by one more request.
C28_StopsOnlyOnEmptyCursorOrError ==
    fetch_all =>
        /\ pc = "returned" <=> (pages # <<>> /\ LastCursor = "")
        /\ pc = "raised" <=> result.kind = "raise"
        /\ (pages # <<>> /\ LastCursor # "") =>
              /\ gets = Len(pages) + 1
              /\ pc \in {"send", "request", "handle", "acquire", "raised"}
              /\ LET query == Filtered(SetParam(caller_params, "cursor", LastCursor))
                 IN  QueryPairs(endpoint) = {query[i] : i \in DOMAIN query}
        /\ \A i \in 1..Len(pages) : GetCursor(pages[i]) = "" => i = Len(pages)

\* the server answered the first two pages with the same cursor, and the
\* third request, carrying that cursor again, is on its way
C28_Witness ==
    /\ fetch_all
    /\ Len(pages) = 2
    /\ GetCursor(pages[1]) = "p2"
    /\ GetCursor(pages[2]) = "p2"
    /\ gets = 3
    /\ pc = "request"

----------------------------------------------------------------------------
(* Errors and the caller's mapping (Spec).                                 *)

\* the error the latest page request ended in
RequestError ==
    IF req_result.kind = "raise"
    THEN req_result.error
    ELSE ApiError(HandleResponse(req_result.response).error)

\* the latest page request ended in an error: _request raised, or it
\* returned a response that _handle_response turns into a typed error
RequestFailed ==
    \/ req_result.kind = "raise"
    \/ /\ req_result.kind = "return"
       /\ pc # "handle"
       /\ HandleResponse(req_result.response).kind = "raise"

\* C29: when the request for a page ends in an error (a typed API error, the
\* rate-limit error or a transport failure), paginated_get raises that very
\* error, hands back none of the items of the earlier pages, and the
\* failing request is the last one it issued.
C29_ErrorPropagates ==
    /\ RequestFailed =>
          /\ pc = "raised"
          /\ result = Raised(RequestError)
          /\ gets = Len(pages) + 1
    /\ pc = "raised" => RequestFailed
    /\ pc = "handle" => req_result.kind = "return"

\* the first page brought items and a cursor, the request for the second
\* page timed out on its last attempt
C29_Witness ==
    /\ pc = "raised"
    /\ Len(pages) = 1
    /\ all_items = <<"A", "B">>
    /\ gets = 2
    /\ last = OTimeout
    /\ result = Raised(TransportError("TimeoutException"))

\* C30: no step of paginated_get changes the mapping the caller passed in:
\* from the call to its return or its exception, whatever the number of
\* pages, the caller's params keep their keys and values; the cursor goes
\* to the private copy only.
C30_CallerParamsUntouched == [][caller_params' = caller_params]_vars

\* the call is over after two pages, the private copy carries the cursor of
\* the first page, and the caller's mapping is still the one passed in,
\* with its cursor None
C30_Witness ==
    /\ pc \in {"returned", "raised"}
    /\ gets = 2
    /\ caller_params = <<<<"limit", None>>, <<"cursor", None>>>>
    /\ params = <<<<"limit", None>>, <<"cursor", "p2">>>>

====
